---------------------------- MODULE Spec2Model ----------------------------
(***************************************************************************)
(* A model of two components of the loggregator pipeline:                  *)
(*                                                                         *)
(*   - the syslog Delivery Sink (doppler/sinks/syslog/syslog_sink.go):     *)
(*     SyslogSink.Run with its filter goroutine, the truncating buffer it  *)
(*     feeds, the connect / backoff / send loop, and SyslogSink.Disconnect;*)
(*   - the Ingestion Listener (metron/eventlistener/event_listener.go):    *)
(*     EventListener.Start, its read loop, and EventListener.Stop.         *)
(*                                                                         *)
(* Each Go goroutine is a process with a position variable; a channel      *)
(* operation that blocks is an action whose guard is the condition under   *)
(* which the operation can complete.  A select with several ready cases    *)
(* is a nondeterministic choice among the enabled actions.                 *)
(***************************************************************************)
EXTENDS Integers, Sequences, FiniteSets, TLC

(***************************************************************************)
(* Bounds of the model.                                                    *)
(***************************************************************************)
\* number of envelopes the producer offers on the sink's input stream
MaxInput == 3
\* messageDrainBufferSize handed to the truncating buffer
BufferSize == 1
\* numberOfTries is followed up to this value and held there
MaxTries == 3

\* number of datagrams the listener's socket delivers
MaxDatagrams == 3
\* largest datagram payload, and the size of the scratch read buffer
MaxLen == 2
\* capacity of the listener's output queue (1024 in New)
QueueCap == 2

\* largest capacity of a truncating buffer run on its own
MaxCap == 2
\* number of items such a buffer receives at most
MaxItems == 5

\* the goroutines that call SyslogSink.Disconnect
Callers == {"c1", "c2"}
OneCaller == {"c1"}

None == [id |-> 0, kind |-> "none", n |-> 0]

\* events.Envelope_LogMessage and one other event type
LogMessage == "LogMessage"
Kinds == {LogMessage, "ValueMetric"}

Min(a, b) == IF a < b THEN a ELSE b

VARIABLES
    \* ---- SyslogSink.Disconnect
    callerPc,           \* position of each Disconnect caller
    onceDone,           \* disconnectOnce has run its function
    disconnectCloses,   \* number of close(disconnectChannel) executed
    faulted,            \* a close of a closed channel (a Go panic) happened
    \* ---- the producer of inputChan
    produced,           \* envelopes offered so far
    pending,            \* the envelope the producer is blocked sending, or None
    inputClosed,        \* inputChan has been closed
    \* ---- filter goroutine
    filterPc,           \* "idle", "select", "send", "done"
    filterV,            \* the envelope held at filteredChan <- v
    \* ---- truncating buffer
    bufQ,               \* pending original items, oldest first
    bufDropped,         \* items evicted since the last notification
    bufClosed,          \* the buffer's output channel is closed
    \* ---- main loop of Run
    mainPc,             \* "init", "connect", "backoff", "select", "write",
                        \* "done"
    connected,
    numberOfTries,
    sleepDuration,
    msg,                \* the envelope handed to sendLogMessage
    timerArmed,         \* the timer is running and will fire
    timerC,             \* values waiting in timer.C (capacity 1)
    \* ---- observations of the Writer and of the stages
    fails,              \* failed Connect and Write calls since the last
                        \* successful Write
    written,            \* envelopes passed to Writer.Write, in order
    logsIn,             \* log envelopes the filter has received
    skipped,            \* non-log items the main loop took and did not send
    closeCount,         \* calls of Writer.Close
    lastCall,           \* the most recent Writer call and its outcome
    errorCall,          \* the arguments handleSendError was invoked with while
                        \* that call was handled, or NoCall
    linkUp,             \* a Connect has succeeded and no Write has failed since
    timerStale          \* the value waiting in timer.C was sent by an arming
                        \* older than the current one

sinkVars == <<callerPc, onceDone, disconnectCloses, faulted, produced, pending,
              inputClosed, filterPc, filterV, bufQ, bufDropped, bufClosed,
              mainPc, connected, numberOfTries, sleepDuration, msg,
              timerArmed, timerC, fails, written, logsIn, skipped, closeCount,
              lastCall, errorCall, linkUp, timerStale>>

VARIABLES
    \* ---- EventListener
    lPc,                \* position of Start: "init", "bound", "read", "count",
                        \* "bytes", "publish", "check", "done", "fatal"
    connection,         \* eventListener.connection: "nil" or "set"
    socket,             \* the UDP socket: "none", "open", "closed"
    stopCalled,         \* Stop has been called
    listenerFaulted,    \* a method was called on the nil connection (a panic)
    readBuffer,         \* the scratch buffer ReadFrom fills
    readCount,
    senderAddr,
    readData,           \* the slice sent on dataChannel
    published,          \* every slice sent on dataChannel, in order
    consumedCount,      \* how many of them the consumer has received
    dataClosed,         \* dataChannel is closed
    receivedMessageCount,
    receivedByteCount,
    \* ---- heartbeat requester
    known,              \* addresses with a tracking session
    pendingStarts,      \* go requester.Start(addr) launched and not yet run
    \* ---- observations
    readLog,            \* payloads of the datagrams read, in order
    launched            \* Start calls launched for an address since it last
                        \* became unknown

listenerVars == <<lPc, connection, socket, stopCalled, listenerFaulted,
                  readBuffer, readCount, senderAddr, readData, published,
                  consumedCount, dataClosed, receivedMessageCount,
                  receivedByteCount, known, pendingStarts, readLog, launched>>

VARIABLES
    \* ---- a truncating buffer run on its own, with any producer and consumer
    tbCapacity,         \* its capacity, 0 before RunTruncatingBuffer
    tbReceived,         \* number of items it received from its input
    tbQ,                \* pending original items, oldest first
    tbDropped,          \* items evicted since the last notification
    tbInputClosed,      \* its input channel is closed
    tbOut,              \* the items its consumer received, in order
    tbInterleaved       \* an item arrived after the consumer had taken one

bufferVars == <<tbCapacity, tbReceived, tbQ, tbDropped, tbInputClosed, tbOut,
                tbInterleaved>>

vars == <<sinkVars, listenerVars, bufferVars>>

(***************************************************************************)
(* Backoff Policy: retrystrategy.NewExponentialRetryStrategy.              *)
(***************************************************************************)
BackoffCeiling == 2

backoffStrategy(n) == 2 ^ Min(n, BackoffCeiling)

(***************************************************************************)
(* Overflow Buffer: sinks.RunTruncatingBuffer.                             *)
(***************************************************************************)
Notification(count) == [id |-> 0, kind |-> "DroppedCounter", n |-> count]

\* a buffer that never evicts
BufferPutNoEvict(q, d, v, size) == [q |-> Append(q, v), d |-> d]

\* a buffer that evicts the oldest item without counting it
BufferPutUncounted(q, d, v, size) ==
    IF Len(q) < size
    THEN [q |-> Append(q, v), d |-> d]
    ELSE [q |-> Append(Tail(q), v), d |-> d]

\* a buffer that, when full, discards the arriving item
BufferPutDropsNewest(q, d, v, size) ==
    IF Len(q) < size
    THEN [q |-> Append(q, v), d |-> d]
    ELSE [q |-> q, d |-> d + 1]

\* the buffer takes v from its input: when full the oldest item is evicted
BufferPut(q, d, v, size) ==
    IF Len(q) < size
    THEN [q |-> Append(q, v), d |-> d]
    ELSE [q |-> Append(Tail(q), v), d |-> d + 1]

\* the output channel can deliver an item
BufferHasOutput(q, d) == d > 0 \/ q # <<>>

\* the item the consumer receives next
BufferOutput(q, d) == IF d > 0 THEN Notification(d) ELSE Head(q)

\* the buffer after the consumer received BufferOutput
BufferTake(q, d) == IF d > 0 THEN [q |-> q, d |-> 0] ELSE [q |-> Tail(q), d |-> d]

(***************************************************************************)
(* SyslogSink.Disconnect: s.disconnectOnce.Do(func() { close(...) })       *)
(***************************************************************************)
DisconnectClosed == disconnectCloses > 0

\* close(s.disconnectChannel): closing a closed channel panics
CloseDisconnectChannel ==
    IF disconnectCloses = 0
    THEN disconnectCloses' = 1 /\ UNCHANGED faulted
    ELSE faulted' = TRUE /\ UNCHANGED disconnectCloses

\* Once.Do, fast path: the function has run already, return at once
DisconnectCall(c) ==
    /\ callerPc[c] = "idle"
    /\ callerPc' = [callerPc EXCEPT ![c] = IF onceDone THEN "idle" ELSE "slow"]
    /\ UNCHANGED <<listenerVars, bufferVars, lastCall, errorCall, linkUp, timerStale,
                   onceDone, disconnectCloses, faulted, produced, pending,
                   inputClosed, filterPc, filterV, bufQ, bufDropped, bufClosed,
                   mainPc, connected, numberOfTries, sleepDuration, msg,
                   timerArmed, timerC, fails, written, logsIn, skipped,
                   closeCount>>

\* a Disconnect that closes the channel with no Once around it
OnceDoUnguarded == CloseDisconnectChannel /\ UNCHANGED onceDone

\* Once.Do, slow path: under the Once's mutex, run the function unless done
OnceDo ==
    IF onceDone
    THEN UNCHANGED <<onceDone, disconnectCloses, faulted>>
    ELSE CloseDisconnectChannel /\ onceDone' = TRUE

DisconnectSlow(c) ==
    /\ callerPc[c] = "slow"
    /\ OnceDo
    /\ callerPc' = [callerPc EXCEPT ![c] = "idle"]
    /\ UNCHANGED <<listenerVars, bufferVars, lastCall, errorCall, linkUp, timerStale,
                   produced, pending, inputClosed, filterPc, filterV, bufQ,
                   bufDropped, bufClosed, mainPc, connected, numberOfTries,
                   sleepDuration, msg, timerArmed, timerC, fails, written,
                   logsIn, skipped, closeCount>>

(***************************************************************************)
(* The producer feeding inputChan (an unbuffered channel).                 *)
(***************************************************************************)
ProducerOffer ==
    /\ pending = None
    /\ ~inputClosed
    /\ produced < MaxInput
    /\ \E k \in Kinds : pending' = [id |-> produced + 1, kind |-> k, n |-> 0]
    /\ produced' = produced + 1
    /\ UNCHANGED <<listenerVars, bufferVars, lastCall, errorCall, linkUp, timerStale,
                   callerPc, onceDone, disconnectCloses, faulted, inputClosed,
                   filterPc, filterV, bufQ, bufDropped, bufClosed, mainPc,
                   connected, numberOfTries, sleepDuration, msg, timerArmed,
                   timerC, fails, written, logsIn, skipped, closeCount>>

InputClose ==
    /\ pending = None
    /\ ~inputClosed
    /\ inputClosed' = TRUE
    /\ UNCHANGED <<listenerVars, bufferVars, lastCall, errorCall, linkUp, timerStale,
                   callerPc, onceDone, disconnectCloses, faulted, produced,
                   pending, filterPc, filterV, bufQ, bufDropped, bufClosed,
                   mainPc, connected, numberOfTries, sleepDuration, msg,
                   timerArmed, timerC, fails, written, logsIn, skipped,
                   closeCount>>

(***************************************************************************)
(* SyslogSink.Run: start, the filter goroutine.                            *)
(***************************************************************************)
\* for { if !connected { err := s.syslogWriter.Connect() ... } select ... }:
\* where the next iteration of the loop blocks
LoopHead(conn) == IF conn THEN "select" ELSE "connect"

\* lines 49-80: the locals, go func, RunTruncatingBuffer, time.NewTimer
RunStart ==
    /\ mainPc = "init"
    /\ mainPc' = LoopHead(FALSE)
    /\ filterPc' = "select"
    /\ numberOfTries' = 0
    /\ connected' = FALSE
    /\ timerArmed' = TRUE
    /\ UNCHANGED <<listenerVars, bufferVars, lastCall, errorCall, linkUp, timerStale,
                   callerPc, onceDone, disconnectCloses, faulted, produced,
                   pending, inputClosed, filterV, bufQ, bufDropped, bufClosed,
                   sleepDuration, msg, timerC, fails, written, logsIn,
                   skipped, closeCount>>

\* v.GetEventType() != events.Envelope_LogMessage
FilterDiscards(v) == v.kind # LogMessage

\* case v, ok := <-inputChan, ok
FilterRecv ==
    /\ filterPc = "select"
    /\ pending # None
    /\ pending' = None
    /\ IF FilterDiscards(pending)
       THEN UNCHANGED <<filterPc, filterV>>
       ELSE filterPc' = "send" /\ filterV' = pending
    /\ logsIn' = IF pending.kind = LogMessage THEN logsIn + 1 ELSE logsIn
    /\ UNCHANGED <<listenerVars, bufferVars, lastCall, errorCall, linkUp, timerStale,
                   callerPc, onceDone, disconnectCloses, faulted, produced,
                   inputClosed, bufQ, bufDropped, bufClosed, mainPc, connected,
                   numberOfTries, sleepDuration, msg, timerArmed, timerC,
                   fails, written, skipped, closeCount>>

\* case v, ok := <-inputChan, !ok: return (defer close(filteredChan))
FilterInputClosed ==
    /\ filterPc = "select"
    /\ inputClosed
    /\ filterPc' = "done"
    /\ UNCHANGED <<listenerVars, bufferVars, lastCall, errorCall, linkUp, timerStale,
                   callerPc, onceDone, disconnectCloses, faulted, produced,
                   pending, inputClosed, filterV, bufQ, bufDropped, bufClosed,
                   mainPc, connected, numberOfTries, sleepDuration, msg,
                   timerArmed, timerC, fails, written, logsIn, skipped,
                   closeCount>>

\* case <-s.disconnectChannel: return (defer close(filteredChan))
FilterDisconnect ==
    /\ filterPc = "select"
    /\ DisconnectClosed
    /\ filterPc' = "done"
    /\ UNCHANGED <<listenerVars, bufferVars, lastCall, errorCall, linkUp, timerStale,
                   callerPc, onceDone, disconnectCloses, faulted, produced,
                   pending, inputClosed, filterV, bufQ, bufDropped, bufClosed,
                   mainPc, connected, numberOfTries, sleepDuration, msg,
                   timerArmed, timerC, fails, written, logsIn, skipped,
                   closeCount>>

\* a filter that hands its items to the main loop itself, with no buffer
FilterSendDirect ==
    /\ filterPc = "send"
    /\ mainPc = "select"
    /\ LET b == BufferPut(bufQ, bufDropped, filterV, BufferSize)
       IN  bufQ' = b.q /\ bufDropped' = b.d
    /\ filterPc' = "select"
    /\ filterV' = None
    /\ UNCHANGED <<listenerVars, bufferVars, lastCall, errorCall, linkUp, timerStale,
                   callerPc, onceDone, disconnectCloses, faulted, produced,
                   pending, inputClosed, bufClosed, mainPc, connected,
                   numberOfTries, sleepDuration, msg, timerArmed, timerC,
                   fails, written, logsIn, skipped, closeCount>>

\* filteredChan <- v: the receiver is the truncating buffer, which takes every
\* item whatever the state of its output side
FilterSend ==
    /\ filterPc = "send"
    /\ LET b == BufferPut(bufQ, bufDropped, filterV, BufferSize)
       IN  bufQ' = b.q /\ bufDropped' = b.d
    /\ filterPc' = "select"
    /\ filterV' = None
    /\ UNCHANGED <<listenerVars, bufferVars, lastCall, errorCall, linkUp, timerStale,
                   callerPc, onceDone, disconnectCloses, faulted, produced,
                   pending, inputClosed, bufClosed, mainPc, connected,
                   numberOfTries, sleepDuration, msg, timerArmed, timerC,
                   fails, written, logsIn, skipped, closeCount>>

\* the buffer's input (filteredChan) is closed: it closes its output
BufferClose ==
    /\ filterPc = "done"
    /\ ~bufClosed
    /\ bufClosed' = TRUE
    /\ UNCHANGED <<listenerVars, bufferVars, lastCall, errorCall, linkUp, timerStale,
                   callerPc, onceDone, disconnectCloses, faulted, produced,
                   pending, inputClosed, filterPc, filterV, bufQ, bufDropped,
                   mainPc, connected, numberOfTries, sleepDuration, msg,
                   timerArmed, timerC, fails, written, logsIn, skipped,
                   closeCount>>

(***************************************************************************)
(* SyslogSink.Run: the main loop.                                          *)
(***************************************************************************)
\* the fields appId and drainUrl set by NewSyslogSink
appId == "appId"
drainUrl == "drainUrl"

\* no invocation of the error callback
NoCall == <<>>

\* s.handleSendError(errorMsg, appId, drainUrl): the callback is invoked
handleSendError(app, url) == errorCall' = <<app, url>>

\* numberOfTries++ (followed up to MaxTries)
Inc(n) == IF n < MaxTries THEN n + 1 ELSE n

\* the count of failed calls, followed one step further than numberOfTries
IncFails(n) == IF n < MaxTries + 1 THEN n + 1 ELSE n

\* a return of Run that runs no deferred Close
ReturnNoClose ==
    /\ mainPc' = "done"
    /\ timerArmed' = FALSE
    /\ UNCHANGED closeCount

\* return: the deferred s.syslogWriter.Close() and timer.Stop() run
Return ==
    /\ mainPc' = "done"
    /\ closeCount' = closeCount + 1
    /\ timerArmed' = FALSE

\* a successful Connect that also resets the attempt counter
ConnectOkResets ==
    /\ connected' = TRUE
    /\ mainPc' = "select"
    /\ numberOfTries' = 0
    /\ lastCall' = "connectOk"
    /\ errorCall' = NoCall
    /\ linkUp' = TRUE
    /\ UNCHANGED <<sleepDuration, timerArmed, fails, timerStale>>

\* err := s.syslogWriter.Connect() returns nil: connected = true
ConnectOk ==
    /\ connected' = TRUE
    /\ mainPc' = "select"
    /\ lastCall' = "connectOk"
    /\ errorCall' = NoCall
    /\ linkUp' = TRUE
    /\ UNCHANGED <<numberOfTries, sleepDuration, timerArmed, fails, timerStale>>

\* Connect returns an error: sleepDuration, handleSendError, timer.Reset.
\* Reset arms the timer again and leaves in timer.C a value sent before it.
ConnectErr ==
    /\ sleepDuration' = backoffStrategy(numberOfTries)
    /\ handleSendError(appId, drainUrl)
    /\ timerArmed' = TRUE
    /\ timerStale' = (timerC = 1)
    /\ fails' = IncFails(fails)
    /\ lastCall' = "connectErr"
    /\ mainPc' = "backoff"
    /\ UNCHANGED <<connected, numberOfTries, linkUp>>

ConnectReturn ==
    /\ mainPc = "connect"
    /\ \/ ConnectOk
       \/ ConnectErr
    /\ UNCHANGED <<listenerVars, bufferVars,
                   callerPc, onceDone, disconnectCloses, faulted, produced,
                   pending, inputClosed, filterPc, filterV, bufQ, bufDropped,
                   bufClosed, msg, timerC, written, logsIn, skipped,
                   closeCount>>

\* the runtime timer expires: a value is sent on timer.C unless one is there
TimerFire ==
    /\ timerArmed
    /\ timerArmed' = FALSE
    /\ timerC' = 1
    /\ timerStale' = (timerC = 1 /\ timerStale)
    /\ UNCHANGED <<listenerVars, bufferVars, lastCall, errorCall, linkUp,
                   callerPc, onceDone, disconnectCloses, faulted, produced,
                   pending, inputClosed, filterPc, filterV, bufQ, bufDropped,
                   bufClosed, mainPc, connected, numberOfTries, sleepDuration,
                   msg, fails, written, logsIn, skipped, closeCount>>

\* select { case <-timer.C: }; numberOfTries++; continue
BackoffExpire ==
    /\ mainPc = "backoff"
    /\ timerC = 1
    /\ timerC' = 0
    /\ timerStale' = FALSE
    /\ numberOfTries' = Inc(numberOfTries)
    /\ sleepDuration' = 0
    /\ mainPc' = LoopHead(connected)
    /\ UNCHANGED <<listenerVars, bufferVars, lastCall, errorCall, linkUp,
                   callerPc, onceDone, disconnectCloses, faulted, produced,
                   pending, inputClosed, filterPc, filterV, bufQ, bufDropped,
                   bufClosed, connected, msg, timerArmed, fails, written,
                   logsIn, skipped, closeCount>>

\* a backoff wait that sleeps without watching the disconnect channel
BackoffUninterruptible ==
    /\ FALSE
    /\ UNCHANGED vars

\* select { case <-s.disconnectChannel: return } of the backoff wait
BackoffDisconnect ==
    /\ mainPc = "backoff"
    /\ DisconnectClosed
    /\ Return
    /\ UNCHANGED <<listenerVars, bufferVars, lastCall, errorCall, linkUp, timerStale,
                   callerPc, onceDone, disconnectCloses, faulted, produced,
                   pending, inputClosed, filterPc, filterV, bufQ, bufDropped,
                   bufClosed, connected, numberOfTries, sleepDuration, msg,
                   timerC, fails, written, logsIn, skipped>>

\* select { case <-s.disconnectChannel: return } of the wait for activity
MainDisconnect ==
    /\ mainPc = "select"
    /\ DisconnectClosed
    /\ Return
    /\ UNCHANGED <<listenerVars, bufferVars, lastCall, errorCall, linkUp, timerStale,
                   callerPc, onceDone, disconnectCloses, faulted, produced,
                   pending, inputClosed, filterPc, filterV, bufQ, bufDropped,
                   bufClosed, connected, numberOfTries, sleepDuration, msg,
                   timerC, fails, written, logsIn, skipped>>

\* a main loop that sends every item it takes from the buffer
MainSendsAll(item) == TRUE

\* messageEnvelope.GetEventType() == events.Envelope_LogMessage
MainSends(item) == item.kind = LogMessage

\* case messageEnvelope, ok := <-buffer.GetOutputChannel(), ok
MainRecv ==
    /\ mainPc = "select"
    /\ BufferHasOutput(bufQ, bufDropped)
    /\ LET item == BufferOutput(bufQ, bufDropped)
           b    == BufferTake(bufQ, bufDropped)
       IN  /\ bufQ' = b.q
           /\ bufDropped' = b.d
           /\ IF MainSends(item)
              THEN /\ mainPc' = "write"
                   /\ msg' = item
                   /\ written' = Append(written, item)
                   /\ UNCHANGED skipped
              ELSE /\ mainPc' = LoopHead(connected)
                   /\ skipped' = skipped + 1
                   /\ UNCHANGED <<msg, written>>
    /\ UNCHANGED <<listenerVars, bufferVars, lastCall, errorCall, linkUp, timerStale,
                   callerPc, onceDone, disconnectCloses, faulted, produced,
                   pending, inputClosed, filterPc, filterV, bufClosed,
                   connected, numberOfTries, sleepDuration, timerArmed,
                   timerC, fails, logsIn, closeCount>>

\* case messageEnvelope, ok := <-buffer.GetOutputChannel(), !ok: return
MainBufferClosed ==
    /\ mainPc = "select"
    /\ bufClosed
    /\ ~BufferHasOutput(bufQ, bufDropped)
    /\ Return
    /\ UNCHANGED <<listenerVars, bufferVars, lastCall, errorCall, linkUp, timerStale,
                   callerPc, onceDone, disconnectCloses, faulted, produced,
                   pending, inputClosed, filterPc, filterV, bufQ, bufDropped,
                   bufClosed, connected, numberOfTries, sleepDuration, msg,
                   timerC, fails, written, logsIn, skipped>>

\* err == nil: numberOfTries = 0; connected = true
WriteOk ==
    /\ numberOfTries' = 0
    /\ connected' = TRUE
    /\ fails' = 0
    /\ lastCall' = "writeOk"
    /\ errorCall' = NoCall
    /\ UNCHANGED linkUp

\* a failed Write after which the sink still takes itself to be connected
WriteErrStaysConnected ==
    /\ numberOfTries' = Inc(numberOfTries)
    /\ connected' = TRUE
    /\ fails' = IncFails(fails)
    /\ lastCall' = "writeErr"
    /\ errorCall' = NoCall
    /\ linkUp' = FALSE

\* err != nil: s.logger.Debugf(...); numberOfTries++; connected = false
WriteErr ==
    /\ numberOfTries' = Inc(numberOfTries)
    /\ connected' = FALSE
    /\ fails' = IncFails(fails)
    /\ lastCall' = "writeErr"
    /\ errorCall' = NoCall
    /\ linkUp' = FALSE

\* a loop that keeps the envelope of a failed Write to send it again
WriteReturnRetries ==
    /\ mainPc = "write"
    /\ \/ WriteOk /\ UNCHANGED bufQ
       \/ WriteErr /\ bufQ' = <<msg>> \o bufQ
    /\ msg' = None
    /\ mainPc' = LoopHead(connected')
    /\ UNCHANGED <<listenerVars, bufferVars, timerStale,
                   callerPc, onceDone, disconnectCloses, faulted, produced,
                   pending, inputClosed, filterPc, filterV, bufDropped,
                   bufClosed, sleepDuration, timerArmed, timerC, written,
                   logsIn, skipped, closeCount>>

\* a loop that also waits out the backoff after a failed Write
WriteReturnBacksOff ==
    /\ mainPc = "write"
    /\ \/ WriteOk /\ UNCHANGED timerArmed
       \/ WriteErr /\ timerArmed' = TRUE
    /\ msg' = None
    /\ mainPc' = IF connected' THEN "select" ELSE "backoff"
    /\ UNCHANGED <<listenerVars, bufferVars, timerStale,
                   callerPc, onceDone, disconnectCloses, faulted, produced,
                   pending, inputClosed, filterPc, filterV, bufQ, bufDropped,
                   bufClosed, sleepDuration, timerC, written,
                   logsIn, skipped, closeCount>>

\* s.sendLogMessage(...) returns
WriteReturn ==
    /\ mainPc = "write"
    /\ \/ WriteOk
       \/ WriteErr
    /\ msg' = None
    /\ mainPc' = LoopHead(connected')
    /\ UNCHANGED <<listenerVars, bufferVars, timerStale,
                   callerPc, onceDone, disconnectCloses, faulted, produced,
                   pending, inputClosed, filterPc, filterV, bufQ, bufDropped,
                   bufClosed, sleepDuration, timerArmed, timerC, written,
                   logsIn, skipped, closeCount>>

(***************************************************************************)
(* The sink: initial state (after NewSyslogSink) and next-state relation.  *)
(***************************************************************************)
SinkInit ==
    /\ callerPc = [c \in Callers |-> "idle"]
    /\ onceDone = FALSE
    /\ disconnectCloses = 0
    /\ faulted = FALSE
    /\ produced = 0
    /\ pending = None
    /\ inputClosed = FALSE
    /\ filterPc = "idle"
    /\ filterV = None
    /\ bufQ = <<>>
    /\ bufDropped = 0
    /\ bufClosed = FALSE
    /\ mainPc = "init"
    /\ connected = FALSE
    /\ numberOfTries = 0
    /\ sleepDuration = 0
    /\ msg = None
    /\ timerArmed = FALSE
    /\ timerC = 0
    /\ fails = 0
    /\ written = <<>>
    /\ logsIn = 0
    /\ skipped = 0
    /\ closeCount = 0
    /\ lastCall = "none"
    /\ errorCall = NoCall
    /\ linkUp = FALSE
    /\ timerStale = FALSE

SinkNextOf(C) ==
    \/ \E c \in C : DisconnectCall(c)
    \/ \E c \in C : DisconnectSlow(c)
    \/ ProducerOffer
    \/ InputClose
    \/ RunStart
    \/ FilterRecv
    \/ FilterInputClosed
    \/ FilterDisconnect
    \/ FilterSend
    \/ BufferClose
    \/ ConnectReturn
    \/ TimerFire
    \/ BackoffExpire
    \/ BackoffDisconnect
    \/ MainDisconnect
    \/ MainRecv
    \/ MainBufferClosed
    \/ WriteReturn

(***************************************************************************)
(* Heartbeat requester (the heartbeatRequester interface).                 *)
(***************************************************************************)
Addrs == {"a1", "a2"}

\* KnownAndReset(senderAddr): whether the address has a tracking session
KnownAndReset(a) == a \in known

\* requester.Start(addr, connection) runs: the session of addr begins
HeartbeatStart(a) ==
    /\ pendingStarts[a] > 0
    /\ pendingStarts' = [pendingStarts EXCEPT ![a] = @ - 1]
    /\ known' = known \cup {a}
    /\ UNCHANGED <<sinkVars, bufferVars,
                   lPc, connection, socket, stopCalled, listenerFaulted,
                   readBuffer, readCount, senderAddr, readData, published,
                   consumedCount, dataClosed, receivedMessageCount,
                   receivedByteCount, readLog, launched>>

\* the session of addr ends for lack of heartbeats: addr is unknown again
SessionExpire(a) ==
    /\ a \in known
    /\ known' = known \ {a}
    /\ launched' = [launched EXCEPT ![a] = 0]
    /\ UNCHANGED <<sinkVars, bufferVars,
                   lPc, connection, socket, stopCalled, listenerFaulted,
                   readBuffer, readCount, senderAddr, readData, published,
                   consumedCount, dataClosed, receivedMessageCount,
                   receivedByteCount, pendingStarts, readLog>>

(***************************************************************************)
(* EventListener.Start and EventListener.Stop.                             *)
(***************************************************************************)
ScratchSize == MaxLen

\* the payload of the k-th datagram, n bytes long
Payload(k, n) == [i \in 1..n |-> k]

\* what a slice sent on dataChannel holds when it is looked at
View(item) ==
    IF item.ref = "scratch" THEN SubSeq(readBuffer, 1, item.len) ELSE item.data

\* the oldest-first content of dataChannel
QueueContent == SubSeq(published, consumedCount + 1, Len(published))

\* net.ListenPacket("udp", host) succeeds
ListenOk ==
    /\ lPc = "init"
    /\ socket' = "open"
    /\ lPc' = "bound"
    /\ UNCHANGED <<sinkVars, bufferVars,
                   connection, stopCalled, listenerFaulted, readBuffer,
                   readCount, senderAddr, readData, published, consumedCount,
                   dataClosed, receivedMessageCount, receivedByteCount, known,
                   pendingStarts, readLog, launched>>

\* net.ListenPacket fails: logger.Fatalf ends the process
ListenFail ==
    /\ lPc = "init"
    /\ lPc' = "fatal"
    /\ UNCHANGED <<sinkVars, bufferVars,
                   connection, socket, stopCalled, listenerFaulted, readBuffer,
                   readCount, senderAddr, readData, published, consumedCount,
                   dataClosed, receivedMessageCount, receivedByteCount, known,
                   pendingStarts, readLog, launched>>

\* lock.Lock(); eventListener.connection = connection; lock.Unlock()
AssignConnection ==
    /\ lPc = "bound"
    /\ connection' = "set"
    /\ lPc' = "read"
    /\ UNCHANGED <<sinkVars, bufferVars,
                   socket, stopCalled, listenerFaulted, readBuffer, readCount,
                   senderAddr, readData, published, consumedCount, dataClosed,
                   receivedMessageCount, receivedByteCount, known,
                   pendingStarts, readLog, launched>>

\* a slice of the scratch buffer, sharing its memory
SliceReadData(buf, n) == [ref |-> "scratch", len |-> n, data |-> <<>>]

\* readData := make([]byte, readCount); copy(readData, readBuffer[:readCount])
CopyReadData(buf, n) == [ref |-> "copy", len |-> n, data |-> SubSeq(buf, 1, n)]

\* connection.ReadFrom(readBuffer) returns a datagram; readData is made
ReadDatagram ==
    /\ lPc = "read"
    /\ socket = "open"
    /\ Len(readLog) < MaxDatagrams
    /\ \E n \in 1..MaxLen, a \in Addrs :
         LET p   == Payload(Len(readLog) + 1, n)
             buf == [i \in 1..ScratchSize |->
                        IF i <= n THEN p[i] ELSE readBuffer[i]]
         IN  /\ readBuffer' = buf
             /\ readCount' = n
             /\ senderAddr' = a
             /\ readData' = CopyReadData(buf, n)
             /\ readLog' = Append(readLog, p)
    /\ lPc' = "count"
    /\ UNCHANGED <<sinkVars, bufferVars,
                   connection, socket, stopCalled, listenerFaulted, published,
                   consumedCount, dataClosed, receivedMessageCount,
                   receivedByteCount, known, pendingStarts, launched>>

\* connection.ReadFrom returns an error (the socket is closed): return, and
\* the deferred close(eventListener.dataChannel) runs
ReadError ==
    /\ lPc = "read"
    /\ socket = "closed"
    /\ lPc' = "done"
    /\ dataClosed' = TRUE
    /\ UNCHANGED <<sinkVars, bufferVars,
                   connection, socket, stopCalled, listenerFaulted, readBuffer,
                   readCount, senderAddr, readData, published, consumedCount,
                   receivedMessageCount, receivedByteCount, known,
                   pendingStarts, readLog, launched>>

\* atomic.AddUint64(&eventListener.receivedMessageCount, 1)
AddMessageCount ==
    /\ lPc = "count"
    /\ receivedMessageCount' = receivedMessageCount + 1
    /\ lPc' = "bytes"
    /\ UNCHANGED <<sinkVars, bufferVars,
                   connection, socket, stopCalled, listenerFaulted, readBuffer,
                   readCount, senderAddr, readData, published, consumedCount,
                   dataClosed, receivedByteCount, known, pendingStarts,
                   readLog, launched>>

\* a byte counter that is advanced by one for each datagram
AddByteCountOne ==
    /\ lPc = "bytes"
    /\ receivedByteCount' = receivedByteCount + 1
    /\ lPc' = "publish"
    /\ UNCHANGED <<sinkVars, bufferVars,
                   connection, socket, stopCalled, listenerFaulted, readBuffer,
                   readCount, senderAddr, readData, published, consumedCount,
                   dataClosed, receivedMessageCount, known, pendingStarts,
                   readLog, launched>>

\* atomic.AddUint64(&eventListener.receivedByteCount, uint64(readCount))
AddByteCount ==
    /\ lPc = "bytes"
    /\ receivedByteCount' = receivedByteCount + readCount
    /\ lPc' = "publish"
    /\ UNCHANGED <<sinkVars, bufferVars,
                   connection, socket, stopCalled, listenerFaulted, readBuffer,
                   readCount, senderAddr, readData, published, consumedCount,
                   dataClosed, receivedMessageCount, known, pendingStarts,
                   readLog, launched>>

\* eventListener.dataChannel <- readData: blocks while the queue is full
Publish ==
    /\ lPc = "publish"
    /\ Len(QueueContent) < QueueCap
    /\ published' = Append(published, readData)
    /\ lPc' = "check"
    /\ UNCHANGED <<sinkVars, bufferVars,
                   connection, socket, stopCalled, listenerFaulted, readBuffer,
                   readCount, senderAddr, readData, consumedCount, dataClosed,
                   receivedMessageCount, receivedByteCount, known,
                   pendingStarts, readLog, launched>>

\* if !requester.KnownAndReset(senderAddr) { go requester.Start(...) }
CheckSender ==
    /\ lPc = "check"
    /\ IF KnownAndReset(senderAddr)
       THEN UNCHANGED <<pendingStarts, launched>>
       ELSE /\ pendingStarts' = [pendingStarts EXCEPT ![senderAddr] = @ + 1]
            /\ launched' = [launched EXCEPT ![senderAddr] = @ + 1]
    /\ lPc' = "read"
    /\ UNCHANGED <<sinkVars, bufferVars,
                   connection, socket, stopCalled, listenerFaulted, readBuffer,
                   readCount, senderAddr, readData, published, consumedCount,
                   dataClosed, receivedMessageCount, receivedByteCount, known,
                   readLog>>

\* Stop: lock.Lock(); eventListener.connection.Close(); lock.Unlock()
Stop ==
    /\ ~stopCalled
    /\ stopCalled' = TRUE
    /\ IF connection = "nil"
       THEN listenerFaulted' = TRUE /\ UNCHANGED socket
       ELSE socket' = "closed" /\ UNCHANGED listenerFaulted
    /\ UNCHANGED <<sinkVars, bufferVars,
                   lPc, connection, readBuffer, readCount, senderAddr,
                   readData, published, consumedCount, dataClosed,
                   receivedMessageCount, receivedByteCount, known,
                   pendingStarts, readLog, launched>>

\* the reader of the output queue receives one payload
Consume ==
    /\ consumedCount < Len(published)
    /\ consumedCount' = consumedCount + 1
    /\ UNCHANGED <<sinkVars, bufferVars,
                   lPc, connection, socket, stopCalled, listenerFaulted,
                   readBuffer, readCount, senderAddr, readData, published,
                   dataClosed, receivedMessageCount, receivedByteCount, known,
                   pendingStarts, readLog, launched>>

\* the state after New
ListenerInit ==
    /\ lPc = "init"
    /\ connection = "nil"
    /\ socket = "none"
    /\ stopCalled = FALSE
    /\ listenerFaulted = FALSE
    /\ readBuffer = [i \in 1..ScratchSize |-> 0]
    /\ readCount = 0
    /\ senderAddr = "none"
    /\ readData = [ref |-> "copy", len |-> 0, data |-> <<>>]
    /\ published = <<>>
    /\ consumedCount = 0
    /\ dataClosed = FALSE
    /\ receivedMessageCount = 0
    /\ receivedByteCount = 0
    /\ known = {}
    /\ pendingStarts = [a \in Addrs |-> 0]
    /\ readLog = <<>>
    /\ launched = [a \in Addrs |-> 0]

\* a step of the goroutine running Start, once the socket is bound
ListenerStep ==
    \/ AssignConnection
    \/ ReadError
    \/ AddMessageCount
    \/ AddByteCount
    \/ Publish
    \/ CheckSender

ListenerNext ==
    \/ ListenOk
    \/ ListenFail
    \/ AssignConnection
    \/ ReadDatagram
    \/ ReadError
    \/ AddMessageCount
    \/ AddByteCount
    \/ Publish
    \/ CheckSender
    \/ Stop
    \/ Consume
    \/ \E a \in Addrs : HeartbeatStart(a)
    \/ \E a \in Addrs : SessionExpire(a)

(***************************************************************************)
(* A truncating buffer on its own: sinks.RunTruncatingBuffer(in, size, ..) *)
(* with a producer that sends up to MaxItems items and closes the input,   *)
(* and a consumer that takes from the output channel when it likes.        *)
(***************************************************************************)
\* the i-th item sent on the buffer's input
Item(i) == [id |-> i, kind |-> LogMessage, n |-> 0]

\* sinks.RunTruncatingBuffer(inputChan, size, ...)
RunTruncatingBuffer(size) ==
    /\ tbCapacity = 0
    /\ tbCapacity' = size
    /\ UNCHANGED <<sinkVars, listenerVars,
                   tbReceived, tbQ, tbDropped, tbInputClosed, tbOut,
                   tbInterleaved>>

\* the producer sends an item: the buffer takes it at once
TruncatingBufferPut ==
    /\ tbCapacity > 0
    /\ ~tbInputClosed
    /\ tbReceived < MaxItems
    /\ LET b == BufferPut(tbQ, tbDropped, Item(tbReceived + 1), tbCapacity)
       IN  tbQ' = b.q /\ tbDropped' = b.d
    /\ tbReceived' = tbReceived + 1
    /\ tbInterleaved' = (tbInterleaved \/ tbOut # <<>>)
    /\ UNCHANGED <<sinkVars, listenerVars,
                   tbCapacity, tbInputClosed, tbOut>>

\* the producer closes the buffer's input
TruncatingBufferInputClose ==
    /\ tbCapacity > 0
    /\ ~tbInputClosed
    /\ tbInputClosed' = TRUE
    /\ UNCHANGED <<sinkVars, listenerVars,
                   tbCapacity, tbReceived, tbQ, tbDropped, tbOut,
                   tbInterleaved>>

\* the consumer receives from GetOutputChannel()
TruncatingBufferTake ==
    /\ BufferHasOutput(tbQ, tbDropped)
    /\ tbOut' = Append(tbOut, BufferOutput(tbQ, tbDropped))
    /\ LET b == BufferTake(tbQ, tbDropped)
       IN  tbQ' = b.q /\ tbDropped' = b.d
    /\ UNCHANGED <<sinkVars, listenerVars,
                   tbCapacity, tbReceived, tbInputClosed, tbInterleaved>>

BufferInit ==
    /\ tbCapacity = 0
    /\ tbReceived = 0
    /\ tbQ = <<>>
    /\ tbDropped = 0
    /\ tbInputClosed = FALSE
    /\ tbOut = <<>>
    /\ tbInterleaved = FALSE

BufferNext ==
    \/ \E size \in 1..MaxCap : RunTruncatingBuffer(size)
    \/ TruncatingBufferPut
    \/ TruncatingBufferInputClose
    \/ TruncatingBufferTake

(***************************************************************************)
(* Specifications.                                                         *)
(***************************************************************************)
Init == SinkInit /\ ListenerInit /\ BufferInit

BufferSpec == Init /\ [][BufferNext]_vars

SinkNext == SinkNextOf(Callers)

SinkNextOne == SinkNextOf(OneCaller)

SinkSpec == Init /\ [][SinkNext]_vars

(***************************************************************************)
(* Fairness.  Every step of a goroutine that can run is eventually run by  *)
(* the Go scheduler, every Connect and Write call returns and the timer    *)
(* fires (weak fairness).  A select chooses at random among its ready      *)
(* cases, so a case that is ready each time the select is reached is       *)
(* eventually chosen (strong fairness of the disconnect cases).  Nothing   *)
(* is assumed of the callers of Disconnect, of the producer, or of the     *)
(* outcome of a Connect or Write.                                          *)
(***************************************************************************)
\* a step of the filter goroutine
FilterStep == FilterRecv \/ FilterInputClosed \/ FilterDisconnect \/ FilterSend

\* a step of the goroutine running Run, once started
MainStep ==
    \/ ConnectReturn
    \/ BackoffExpire
    \/ BackoffDisconnect
    \/ MainDisconnect
    \/ MainRecv
    \/ MainBufferClosed
    \/ WriteReturn

SinkFairness ==
    /\ \A c \in OneCaller : WF_vars(DisconnectSlow(c))
    /\ WF_vars(FilterStep)
    /\ WF_vars(BufferClose)
    /\ WF_vars(MainStep)
    /\ WF_vars(TimerFire)
    /\ SF_vars(FilterDisconnect)
    /\ SF_vars(BackoffDisconnect \/ MainDisconnect)

\* The liveness specifications have one caller of Disconnect: the callers act
\* on Run through disconnectChannel alone, which one caller closes as well as
\* several.
SinkFair == Init /\ [][SinkNextOne]_vars /\ SinkFairness

\* only the filter stage and the buffer are scheduled: the main loop may stay
\* in a Connect, a Write or a backoff wait for ever
SinkStall ==
    Init /\ [][SinkNextOne]_vars /\ WF_vars(FilterStep)

(***************************************************************************)
(* Claims about the sink.                                                  *)
(***************************************************************************)
\* C1: however many Disconnect calls are made, and however they interleave
\* with each other and with Run, the disconnect channel is closed at most
\* once (exactly once as soon as the Once has run), no close of a closed
\* channel happens, and the run loop shuts down at most once.
C1_DisconnectOnce ==
    /\ disconnectCloses <= 1
    /\ ~faulted
    /\ (onceDone <=> disconnectCloses = 1)
    /\ closeCount <= 1

\* a second caller is in Once.Do after the first has closed the channel, and
\* the run loop has shut down
C1_Witness ==
    /\ onceDone
    /\ \E c \in Callers : callerPc[c] = "slow"
    /\ mainPc = "done"

\* C2: Writer.Write is invoked for log envelopes only; nothing but log
\* envelopes passes the filter stage, and the number of Write calls never
\* exceeds the number of log envelopes received (none when there were none).
C2_OnlyLogsWritten ==
    /\ \A i \in 1..Len(written) : written[i].kind = LogMessage
    /\ \A i \in 1..Len(bufQ) : bufQ[i].kind = LogMessage
    /\ filterV # None => filterV.kind = LogMessage
    /\ msg # None => msg.kind = LogMessage
    /\ Len(written) <= logsIn

\* a non-log envelope was discarded by the filter, a dropped-message
\* notification was skipped by the main loop, and a log envelope was written
C2_Witness ==
    /\ logsIn < produced
    /\ pending = None
    /\ skipped > 0
    /\ written # <<>>

InLoop == mainPc \in {"connect", "backoff", "select", "write"}

\* C3: while Run is in its loop, numberOfTries is the number of failed
\* Connect calls whose wait completed plus failed Write calls since the last
\* successful Write (counted up to MaxTries), and the wait after a failed
\* Connect uses backoffStrategy(numberOfTries).
C3_AttemptCounter ==
    InLoop =>
        /\ numberOfTries =
              Min(fails - (IF mainPc = "backoff" THEN 1 ELSE 0), MaxTries)
        /\ mainPc = "backoff" => sleepDuration = backoffStrategy(numberOfTries)

\* Connect failed twice and then succeeded; nothing was written yet
C3_Witness ==
    /\ mainPc = "select"
    /\ connected
    /\ numberOfTries = 2
    /\ fails = 2
    /\ written = <<>>

\* C4: once Disconnect has been called on a sink whose Run has started, Run
\* eventually returns.
C4_DisconnectStopsRun ==
    (/\ mainPc # "init"
     /\ \/ DisconnectClosed
        \/ \E c \in Callers : callerPc[c] = "slow")
    ~> (mainPc = "done")

\* Run has returned from a backoff wait whose timer had not expired, with an
\* item still pending in the buffer
C4_Witness ==
    /\ mainPc = "done"
    /\ DisconnectClosed
    /\ sleepDuration > 0
    /\ timerC = 0
    /\ bufQ # <<>>

\* C5: once the input stream is closed, Run eventually returns, whether or
\* not Disconnect is called and whatever the Connect and Write calls return.
C5_InputCloseStopsRun ==
    (inputClosed /\ mainPc # "init") ~> (mainPc = "done")

\* C6: when Run has returned Writer.Close has been called exactly once, after
\* Close no Connect or Write is started, and the filter goroutine ends.
C6_CloseOnReturn ==
    /\ [](mainPc = "done" => closeCount = 1)
    /\ [][closeCount > 0 => mainPc' \notin {"connect", "write"}]_vars
    /\ (mainPc = "done") ~> (filterPc = "done")

\* Run returned because the buffer output was closed, with no Disconnect
C6_Witness ==
    /\ mainPc = "done"
    /\ closeCount = 1
    /\ filterPc = "done"
    /\ ~DisconnectClosed
    /\ \A c \in Callers : callerPc[c] = "idle"

\* C7: an envelope offered on the input stream of a running sink is taken by
\* the filter stage (unless the sink is disconnected), even if the main loop
\* never leaves a Connect, a Write or a backoff wait.
C7_InputNeverBlocked ==
    (pending # None /\ filterPc # "idle")
    ~> (pending = None \/ DisconnectClosed)

\* the main loop is still in its first Connect and the filter has taken the
\* whole input, more than the buffer holds
C7_Witness ==
    /\ mainPc = "connect"
    /\ fails = 0
    /\ written = <<>>
    /\ produced = MaxInput
    /\ pending = None
    /\ bufDropped > 0

ListenerSpec == Init /\ [][ListenerNext]_vars

\* The goroutine running Start takes every step it can take, and a launched
\* requester.Start runs.  Nothing is assumed of the senders of datagrams, of
\* the caller of Stop, or of the reader of the output queue.
ListenerFair ==
    /\ ListenerSpec
    /\ WF_vars(ListenerStep)
    /\ \A a \in Addrs : WF_vars(HeartbeatStart(a))

(***************************************************************************)
(* Claims about the listener.                                              *)
(***************************************************************************)
InFlight == lPc \in {"count", "bytes", "publish"}

\* C8: the payloads on the output queue, as their reader sees them, are the
\* payloads of the datagrams read, each once and in the order read; only the
\* datagram just read and not yet sent may be missing.
C8_PublishedAsRead ==
    /\ Len(published) = Len(readLog) - (IF InFlight THEN 1 ELSE 0)
    /\ \A i \in 1..Len(published) : View(published[i]) = readLog[i]

\* three datagrams were published, the second longer than the third, so the
\* scratch buffer still holds bytes of the second
C8_Witness ==
    /\ Len(published) = 3
    /\ Len(readLog[2]) = 2
    /\ Len(readLog[3]) = 1
    /\ readBuffer = <<3, 2>>
    /\ consumedCount = 1

\* C9: once Stop has been called on a started listener, Start returns and
\* the output queue is closed, whatever its reader does.
C9_StopEndsLoop ==
    (stopCalled /\ socket = "closed") ~> (lPc = "done" /\ dataClosed)

\* C10: for every address, at most one requester.Start is launched while the
\* address is unknown.
C10_OneStartPerAddress == \A a \in Addrs : launched[a] <= 1

RECURSIVE TotalLen(_)
\* the sum of the sizes of a sequence of payloads
TotalLen(ps) == IF ps = <<>> THEN 0 ELSE Len(Head(ps)) + TotalLen(Tail(ps))

\* the payloads sent on dataChannel, as their reader sees them
PublishedPayloads == [i \in 1..Len(published) |-> View(published[i])]

\* C11 (as claimed): in every state receivedMessageCount is the number of
\* datagrams read and receivedByteCount the sum of their sizes; neither is
\* smaller than what was published, and both equal the published number and
\* size once every datagram read has been published.
C11_CountersEqualReads ==
    /\ receivedMessageCount = Len(readLog)
    /\ receivedByteCount = TotalLen(readLog)
    /\ receivedMessageCount >= Len(published)
    /\ receivedByteCount >= TotalLen(PublishedPayloads)
    /\ Len(published) = Len(readLog) =>
          /\ receivedMessageCount = Len(published)
          /\ receivedByteCount = TotalLen(PublishedPayloads)

\* C11 (amended): the counters are those of the datagrams read except between
\* the return of ReadFrom and the atomic add of each counter, where the
\* datagram just read is not counted yet; neither is ever smaller than what
\* was published, and both equal the published number and size once every
\* datagram read has been published.
C11_CountersTrackReads ==
    /\ receivedMessageCount =
          Len(readLog) - (IF lPc = "count" THEN 1 ELSE 0)
    /\ receivedByteCount =
          TotalLen(readLog) - (IF lPc \in {"count", "bytes"} THEN readCount ELSE 0)
    /\ receivedMessageCount >= Len(published)
    /\ receivedByteCount >= TotalLen(PublishedPayloads)
    /\ Len(published) = Len(readLog) =>
          /\ receivedMessageCount = Len(published)
          /\ receivedByteCount = TotalLen(PublishedPayloads)

\* three datagrams of sizes 1, 2 and 2 were read and published: 3 and 5
C11_Witness ==
    /\ Len(published) = 3
    /\ Len(readLog[1]) = 1 /\ Len(readLog[2]) = 2 /\ Len(readLog[3]) = 2
    /\ receivedMessageCount = 3
    /\ receivedByteCount = 5

\* C12: every failed Connect and every failed Write of the run loop is
\* reported through the error callback, invoked with the sink's stream
\* identifier and destination identifier.
C12_FailuresReported ==
    lastCall \in {"connectErr", "writeErr"} => errorCall = <<appId, drainUrl>>

\* C16: after a failed Connect the next Connect is invoked only once the timer
\* armed for that failure has expired: the backoff wait is never ended by a
\* value that the timer created before the loop, or an earlier arming, left
\* in timer.C.
C16_WaitsForOwnTimer ==
    [][(mainPc = "backoff" /\ mainPc' = "connect") => ~timerStale]_vars

\* C17: Write is invoked only while connected: when a Write is in progress a
\* Connect has succeeded and no Write has failed since, so that after a failed
\* Write there is no further Write until a Connect has succeeded again.
C17_WriteOnlyConnected == mainPc = "write" => (connected /\ linkUp)

\* the second Write, after the first one failed and Connect succeeded again
C17_Witness ==
    /\ mainPc = "write"
    /\ Len(written) = 2
    /\ fails = 1
    /\ lastCall = "connectOk"

C20_StopOnAssignedSocket ==
    stopCalled => (~listenerFaulted /\ socket = "closed")

(***************************************************************************)
(* Claims about the truncating buffer.                                     *)
(***************************************************************************)
\* C13: in every reachable state, for every interleaving of the filter stage
\* and the main loop, the buffer holds no more pending items than the
\* capacity it was given.
C13_BufferBounded == Len(bufQ) <= BufferSize

\* the buffer is full, has evicted an item, and another item is arriving
C13_Witness ==
    /\ Len(bufQ) = BufferSize
    /\ bufDropped > 0
    /\ filterPc = "send"

\* the original items of a sequence of items
Originals(items) == SelectSeq(items, LAMBDA i : i.kind = LogMessage)

\* the notification items of a sequence of items
Notifications(items) == SelectSeq(items, LAMBDA i : i.kind # LogMessage)

RECURSIVE DroppedSum(_)
\* the sum of the dropped counts carried by a sequence of notification items
DroppedSum(items) ==
    IF items = <<>> THEN 0 ELSE Head(items).n + DroppedSum(Tail(items))

\* the notification items the buffer has put out: those the consumer received
\* and the one standing at the output channel, if any
Emitted ==
    Notifications(tbOut) \o
        (IF tbDropped > 0 THEN <<Notification(tbDropped)>> ELSE <<>>)

\* C14: when the buffer's input has closed, the dropped counts carried by
\* the notification items it has put out sum to the items received less the
\* originals delivered less the originals still pending: every drop is
\* counted once.
C14_DropsAccounted ==
    tbInputClosed =>
        DroppedSum(Emitted) =
            tbReceived - Len(Originals(tbOut)) - Len(tbQ)

\* input closed after drops of which some were notified, some delivered
C14_Witness ==
    /\ tbInputClosed
    /\ Len(Notifications(tbOut)) = 2
    /\ Len(Originals(tbOut)) >= 1
    /\ DroppedSum(Notifications(tbOut)) = 3

\* C15: a buffer of capacity c that received n > c items while its consumer
\* took nothing delivers, once drained, the newest c originals in order and
\* one notification reporting n - c.
C15_NewestKept ==
    (/\ ~tbInterleaved
     /\ tbReceived > tbCapacity
     /\ tbCapacity > 0
     /\ ~BufferHasOutput(tbQ, tbDropped)) =>
        /\ Originals(tbOut) =
              [i \in 1..tbCapacity |-> Item(tbReceived - tbCapacity + i)]
        /\ Notifications(tbOut) = <<Notification(tbReceived - tbCapacity)>>

\* capacity 2, 5 items, stalled consumer: items 4 and 5 and a notification of 3
C15_Witness ==
    /\ tbCapacity = 2
    /\ tbReceived = 5
    /\ ~tbInterleaved
    /\ ~BufferHasOutput(tbQ, tbDropped)
    /\ Originals(tbOut) = <<Item(4), Item(5)>>
    /\ Notifications(tbOut) = <<Notification(3)>>

============================================================================
